---------------------------- MODULE Spec2Model ----------------------------
(***************************************************************************)
(* Model of the go-tuf client (client/client.go): the metadata update      *)
(* state machine of Client.update / Client.updateWithLatestRoot, the local *)
(* metadata cache (Client.getLocalMeta), the two metadata downloads and    *)
(* Init, over an untrusted remote store, a single-writer local store and a *)
(* wall clock.                                                             *)
(*                                                                         *)
(* A metadata file is a blob, named by an identifier; Content gives what   *)
(* its bytes decode to, BlobLen their length, and the digest of a blob is  *)
(* its identifier (no two blobs of the universe collide).                  *)
(***************************************************************************)
EXTENDS Integers, FiniteSets, Sequences, TLC

\* The wall clock runs from 0 to MaxTime.
MaxTime == 1

\* An expiry time no clock value reaches.
Never == MaxTime + 1

Roles == {"root", "targets", "snapshot", "timestamp"}

MetaNames == {"root.json", "targets.json", "snapshot.json", "timestamp.json"}

\* Absence of a blob (a missing map entry, a nil byte slice).
NONE == "none"

\* Bytes that are no JSON document, the bytes of a stream that ended early,
\* and a file one byte longer than maxMetaSize.
JUNK == "junk"

CUT == "cut"

BIG == "big"

\* maxMetaSize: the cap of a download of unknown length.
maxMetaSize == 50 * 1024

RootBlobs == {"R1", "R2", "R2b", "R2r", "Rx"}

TimestampBlobs == {"T1", "T2", "T2b", "T3", "T4"}

SnapshotBlobs == {"S1", "S2", "S2b", "S3"}

TargetsBlobs == {"G1", "G1b", "G2", "G3"}

Blobs == RootBlobs \cup TimestampBlobs \cup SnapshotBlobs \cup TargetsBlobs

\* Length in bytes of each blob.
BlobLen(b) ==
    CASE b \in RootBlobs -> IF b = "R2b" THEN 520 ELSE 500
      [] b \in TimestampBlobs -> 300
      [] b \in SnapshotBlobs -> 400
      [] b \in {"G1", "G1b"} -> 200
      [] b \in {"G2", "G3"} -> 230
      [] b = JUNK -> 300
      [] b = BIG -> maxMetaSize + 1
      [] OTHER -> 0

\* data.FileMeta: a length and a digest per hash algorithm.
NoHashes == [a \in {} |-> ""]

ZeroMeta == [length |-> 0, hashes |-> NoHashes]

\* The FileMeta a repository records for blob b.
MetaOf(b) == [length |-> BlobLen(b), hashes |-> [a \in {"sha512"} |-> b]]

\* The contents of target files, as byte sequences.
Foo == <<"f", "o", "o">>

Bar == <<"b", "a", "r">>

Bar2 == <<"b", "a", "r", "2">>

\* The FileMeta of a target file with content f: its length and its digest
\* (the content stands for its own digest).
FileMetaOf(f) == [length |-> Len(f), hashes |-> [a \in {"sha512"} |-> f]]

\* Targets documents: the first release, and the second, which keeps foo.txt,
\* changes bar.txt, drops old.txt and adds new.txt.
Release1 ==
    [p \in {"foo.txt", "bar.txt", "old.txt"} |->
        CASE p = "foo.txt" -> FileMetaOf(Foo) [] p = "bar.txt" -> FileMetaOf(Bar)
          [] OTHER -> FileMetaOf(Foo)]

Release2 ==
    [p \in {"foo.txt", "bar.txt", "new.txt"} |->
        CASE p = "foo.txt" -> FileMetaOf(Foo) [] p = "bar.txt" -> FileMetaOf(Bar2)
          [] OTHER -> FileMetaOf(Bar)]

\* data.Role for each role of a root document.
RoleKeys(r, t, s, g) ==
    [root |-> [keyids |-> r, threshold |-> 1],
     targets |-> [keyids |-> g, threshold |-> 1],
     snapshot |-> [keyids |-> s, threshold |-> 1],
     timestamp |-> [keyids |-> t, threshold |-> 1]]

\* What the bytes of each blob decode to: the signed envelope (sigs: the key
\* ids whose signature over the payload is valid) and the role document.
Decoded(b) ==
    CASE b = "R1" -> [type |-> "root", version |-> 1, expires |-> 1, sigs |-> {"kr"},
                      keys |-> {"kr", "kt", "ks", "kg"},
                      roles |-> RoleKeys({"kr"}, {"kt"}, {"ks"}, {"kg"})]
      [] b = "R2" -> [type |-> "root", version |-> 2, expires |-> Never, sigs |-> {"kr"},
                      keys |-> {"kr", "kt2", "ks", "kg"},
                      roles |-> RoleKeys({"kr"}, {"kt2"}, {"ks"}, {"kg"})]
      [] b = "R2b" -> [type |-> "root", version |-> 2, expires |-> Never, sigs |-> {"kr", "kx"},
                      keys |-> {"kr", "kt2", "ks", "kg"},
                      roles |-> RoleKeys({"kr"}, {"kt2"}, {"ks"}, {"kg"})]
      [] b = "R2r" -> [type |-> "root", version |-> 2, expires |-> Never, sigs |-> {"kr"},
                      keys |-> {"kr2", "kt2", "ks", "kg"},
                      roles |-> RoleKeys({"kr2"}, {"kt2"}, {"ks"}, {"kg"})]
      [] b = "Rx" -> [type |-> "root", version |-> 3, expires |-> Never, sigs |-> {"kx"},
                      keys |-> {"kx"},
                      roles |-> RoleKeys({"kx"}, {"kx"}, {"kx"}, {"kx"})]
      [] b = "T1" -> [type |-> "timestamp", version |-> 1, expires |-> 1, sigs |-> {"kt"},
                      snapshot |-> MetaOf("S1")]
      [] b = "T2" -> [type |-> "timestamp", version |-> 2, expires |-> Never, sigs |-> {"kt2"},
                      snapshot |-> MetaOf("S2")]
      [] b = "T2b" -> [type |-> "timestamp", version |-> 2, expires |-> 1, sigs |-> {"kt2"},
                      snapshot |-> MetaOf("S2b")]
      [] b = "T3" -> [type |-> "timestamp", version |-> 3, expires |-> Never, sigs |-> {"kt2"},
                      snapshot |-> MetaOf("S1")]
      [] b = "T4" -> [type |-> "timestamp", version |-> 4, expires |-> Never, sigs |-> {"kt2"},
                      snapshot |-> MetaOf("S3")]
      [] b = "S1" -> [type |-> "snapshot", version |-> 1, expires |-> 1, sigs |-> {"ks"},
                      root |-> MetaOf("R1"), targets |-> MetaOf("G1")]
      [] b = "S2" -> [type |-> "snapshot", version |-> 2, expires |-> Never, sigs |-> {"ks"},
                      root |-> MetaOf("R2"), targets |-> MetaOf("G2")]
      [] b = "S2b" -> [type |-> "snapshot", version |-> 2, expires |-> 1, sigs |-> {"ks"},
                      root |-> MetaOf("R2b"), targets |-> MetaOf("G1b")]
      [] b = "S3" -> [type |-> "snapshot", version |-> 3, expires |-> Never, sigs |-> {"ks"},
                      root |-> MetaOf("R2"), targets |-> MetaOf("G3")]
      [] b = "G1" -> [type |-> "targets", version |-> 1, expires |-> 1, sigs |-> {"kg"},
                      targets |-> Release1]
      [] b = "G1b" -> [type |-> "targets", version |-> 2, expires |-> 1, sigs |-> {"kg"},
                      targets |-> Release1]
      [] b = "G2" -> [type |-> "targets", version |-> 2, expires |-> Never, sigs |-> {"kg"},
                      targets |-> Release2]
      [] b = "G3" -> [type |-> "targets", version |-> 3, expires |-> Never, sigs |-> {"kg"},
                      targets |-> Release2]
      [] OTHER -> [type |-> "malformed"]

\* The same, tabulated over every byte string of the universe.
Documents == [b \in Blobs \cup {NONE, JUNK, CUT, BIG} |-> Decoded(b)]

Content(b) == Documents[b]

----------------------------------------------------------------------------
(* Errors. Every error value is a record [kind, file, cause, version]; OK   *)
(* is nil.                                                                  *)

Err(kind, file, cause) == [kind |-> kind, file |-> file, cause |-> cause, version |-> 0]

OK == Err("nil", "", "")

\* ErrLatestSnapshot carries the snapshot version.
ErrLatestSnapshot(v) == [Err("LatestSnapshot", "", "") EXCEPT !.version = v]

\* ErrWrongSize{name, actual, expected}.
ErrWrongSize(name, actual, expected) ==
    [kind |-> "WrongSize", file |-> name, cause |-> "", version |-> 0,
     actual |-> actual, expected |-> expected]

\* ErrMetaTooLarge{name, size}.
ErrMetaTooLarge(name, size) ==
    [kind |-> "MetaTooLarge", file |-> name, cause |-> "", version |-> 0, size |-> size]

----------------------------------------------------------------------------
(* Key database (keys.DB): the trusted key ids and, per role, the role's    *)
(* key ids and threshold. A role that was never added has threshold 0.      *)

NoRole == [keyids |-> {}, threshold |-> 0]

\* A nil *keys.DB, and the database keys.NewDB() returns.
NilDB == [keys |-> {}, roles |-> [r \in Roles |-> NoRole]]

\* db.AddRole: a threshold below 1 is rejected.
AddRoleOK(role) == role.threshold >= 1

\* The database getLocalMeta builds from a root document's keys and roles.
DBOfRoot(d) == [keys |-> d.keys, roles |-> d.roles]

\* The database Init builds from the caller's root keys and threshold.
DBOfInit(rootKeys, threshold) ==
    [keys |-> rootKeys,
     roles |-> [r \in Roles |-> IF r = "root"
                                 THEN [keyids |-> rootKeys, threshold |-> threshold]
                                 ELSE NoRole]]

----------------------------------------------------------------------------
(* Signature verifier (package signed).                                     *)

\* signed.IsExpired at clock value t.
IsExpired(expires, t) == expires <= t

\* The signatures of document d that count for a role of db: made with a key
\* of the role that the database holds, each key id counted once.
ValidSigs(d, role, db) == d.sigs \cap db.roles[role].keyids \cap db.keys

\* signed.Verify / signed.VerifyTrusted on the bytes b: the name of the error,
\* or "nil". trusted skips the expiry check.
Verify(b, role, minVersion, db, trusted, t) ==
    LET d == Content(b) IN
    IF d.type = "malformed" THEN "Malformed"
    ELSE IF d.type # role THEN "WrongType"
    ELSE IF db.roles[role].threshold = 0 THEN "UnknownRole"
    ELSE IF Cardinality(ValidSigs(d, role, db)) < db.roles[role].threshold THEN "RoleThreshold"
    ELSE IF d.version < minVersion THEN "LowVersion"
    ELSE IF ~trusted /\ IsExpired(d.expires, t) THEN "Expired"
    ELSE "nil"

----------------------------------------------------------------------------
(* The remote store. RemoteFiles lists the repository states an honest      *)
(* remote serves. The remote is untrusted: every Get may answer with any    *)
(* file of any of these states, whatever it answered before, and it may     *)
(* misreport sizes and stall or cut streams.                                *)

RemoteFiles(r) ==
    CASE r = "repo1" -> [n \in MetaNames |->
                CASE n = "root.json" -> "R1" [] n = "timestamp.json" -> "T1"
                  [] n = "snapshot.json" -> "S1" [] OTHER -> "G1"]
      [] r = "repo2" -> [n \in MetaNames |->
                CASE n = "root.json" -> "R2" [] n = "timestamp.json" -> "T2"
                  [] n = "snapshot.json" -> "S2" [] OTHER -> "G2"]
      [] r = "repo2b" -> [n \in MetaNames |->
                CASE n = "root.json" -> "R2b" [] n = "timestamp.json" -> "T2b"
                  [] n = "snapshot.json" -> "S2b" [] OTHER -> "G1b"]
      [] r = "repo3" -> [n \in MetaNames |->
                CASE n = "root.json" -> "R2" [] n = "timestamp.json" -> "T3"
                  [] n = "snapshot.json" -> "S1" [] OTHER -> "G1"]
      [] r = "repo4" -> [n \in MetaNames |->
                CASE n = "root.json" -> "R2" [] n = "timestamp.json" -> "T4"
                  [] n = "snapshot.json" -> "S3" [] OTHER -> "G3"]
      [] r = "rotated" -> [n \in MetaNames |->
                CASE n = "root.json" -> "R2r" [] OTHER -> NONE]
      [] r = "bad" -> [n \in MetaNames |->
                CASE n = "root.json" -> "Rx" [] n = "timestamp.json" -> "S2"
                  [] n = "snapshot.json" -> JUNK [] OTHER -> NONE]
      [] OTHER -> [n \in MetaNames |->
                CASE n = "timestamp.json" -> BIG [] OTHER -> NONE]

Remotes == {"repo1", "repo2", "repo2b", "repo3", "repo4", "rotated", "bad", "huge"}

\* The files a remote can serve under a name (NONE: no such file).
Served(name) == {RemoteFiles(r)[name] : r \in Remotes}

Resp(status, blob, size, mode) == [status |-> status, blob |-> blob, size |-> size, mode |-> mode]

\* Every response remote.Get(name) can give (RemoteStore.Get): a file with its
\* length, an unknown length (-1) or a length one byte short; a stream that ends or
\* stalls before its first byte (whatever file it carried, no byte of it is
\* read); no such file; a transport error.
Responses(name) ==
    {Resp("ok", b, sz, "ok") : b \in Served(name) \ {NONE}, sz \in {0, -1, 1}}
    \cup {Resp("ok", NONE, -1, md) : md \in {"short", "timeout"}}
    \cup {Resp("notfound", NONE, 0, "ok"), Resp("error", NONE, 0, "ok")}

\* The size a response reports: the blob's length, -1, or a length one byte
\* short.
ReportedSize(resp) ==
    IF resp.size = -1 THEN -1 ELSE BlobLen(resp.blob) - resp.size

\* The repository states in which an honest remote gives this response.
HonestRepos(name, resp) ==
    {r \in Remotes :
        IF RemoteFiles(r)[name] = NONE THEN resp.status = "notfound"
        ELSE /\ resp.status = "ok"
             /\ resp.blob = RemoteFiles(r)[name]
             /\ resp.size \in {0, -1}
             /\ resp.mode = "ok"}

----------------------------------------------------------------------------
(* The two metadata downloads.                                              *)

\* How a stream behaves when read: it delivers its bytes, it ends early, or it
\* stops delivering (the timeoutReader then fails the read).
StreamModes == {"ok", "short", "timeout"}

\* The bytes read from a stream of blob b through io.LimitReader(r, n): the
\* blob, or a strict prefix of it.
Take(b, n) ==
    IF BlobLen(b) <= n THEN [blob |-> b, len |-> BlobLen(b)] ELSE [blob |-> CUT, len |-> n]

\* The bytes read from a response whose stream is limited to n bytes.
ReadData(resp, n) ==
    IF resp.mode = "ok" THEN Take(resp.blob, n) ELSE [blob |-> CUT, len |-> 0]

\* util.GenerateFileMeta of the bytes read.
GenerateFileMeta(data) == [length |-> data.len, hashes |-> [a \in {"sha512"} |-> data.blob]]

\* util.FileMetaEqual: the name of the error, or "nil".
FileMetaEqual(actual, expected) ==
    LET common == (DOMAIN actual.hashes) \cap (DOMAIN expected.hashes) IN
    IF actual.length # expected.length THEN "WrongLength"
    ELSE IF \E a \in common : actual.hashes[a] # expected.hashes[a] THEN "WrongHash"
    ELSE IF common = {} THEN "NoCommonHash"
    ELSE "nil"

\* A download that failed with err after reading n bytes of the stream.
Failed(err, n) == [err |-> err, data |-> NONE, read |-> n]

\* downloadMetaUnsafe reading the stream to its end.
downloadMetaUnsafeNoLimit(name, resp) ==
    IF resp.status = "notfound" THEN Failed(Err("MissingRemoteMetadata", name, ""), 0)
    ELSE IF resp.status = "error" THEN Failed(Err("DownloadFailed", name, "Transport"), 0)
    ELSE IF ReportedSize(resp) > maxMetaSize THEN Failed(ErrMetaTooLarge(name, ReportedSize(resp)), 0)
    ELSE IF resp.mode = "timeout" THEN Failed(Err("ReadTimeout", "", ""), 0)
    ELSE [err |-> OK, data |-> ReadData(resp, BlobLen(resp.blob)).blob,
          read |-> ReadData(resp, BlobLen(resp.blob)).len]

\* Client.downloadMetaUnsafe on the response resp of remote.Get(name): the
\* error, the bytes returned and the number of bytes read from the stream.
downloadMetaUnsafe(name, resp) ==
    IF resp.status = "notfound" THEN Failed(Err("MissingRemoteMetadata", name, ""), 0)
    ELSE IF resp.status = "error" THEN Failed(Err("DownloadFailed", name, "Transport"), 0)
    ELSE IF ReportedSize(resp) > maxMetaSize THEN Failed(ErrMetaTooLarge(name, ReportedSize(resp)), 0)
    ELSE IF resp.mode = "timeout" THEN Failed(Err("ReadTimeout", "", ""), 0)
    ELSE [err |-> OK, data |-> ReadData(resp, maxMetaSize).blob,
          read |-> ReadData(resp, maxMetaSize).len]

\* downloadMeta without the comparison of the bytes read with m.
downloadMetaNoCheck(name, m, resp) ==
    IF resp.status = "notfound" THEN Failed(Err("MissingRemoteMetadata", name, ""), 0)
    ELSE IF resp.status = "error" THEN Failed(Err("Transport", "", ""), 0)
    ELSE IF resp.mode = "timeout" THEN Failed(Err("ReadTimeout", "", ""), 0)
    ELSE [err |-> OK, data |-> ReadData(resp, m.length).blob,
          read |-> ReadData(resp, m.length).len]

\* Client.downloadMeta on the response resp of remote.Get(name), pinned to m.
downloadMeta(name, m, resp) ==
    IF resp.status = "notfound" THEN Failed(Err("MissingRemoteMetadata", name, ""), 0)
    ELSE IF resp.status = "error" THEN Failed(Err("Transport", "", ""), 0)
    ELSE IF ReportedSize(resp) >= 0 /\ ReportedSize(resp) # m.length
         THEN Failed(ErrWrongSize(name, ReportedSize(resp), m.length), 0)
    ELSE IF resp.mode = "timeout" THEN Failed(Err("ReadTimeout", "", ""), 0)
    ELSE LET data == ReadData(resp, m.length)
             eq == FileMetaEqual(GenerateFileMeta(data), m)
         IN IF eq # "nil" THEN Failed(Err("DownloadFailed", name, eq), data.len)
            ELSE [err |-> OK, data |-> data.blob, read |-> data.len]

----------------------------------------------------------------------------
(* Client state and the decoders.                                           *)

\* A nil data.Files map.
NilFiles == [p \in {} |-> ZeroMeta]

\* A nil localMeta map, and an empty local store.
NoMeta == [n \in MetaNames |-> NONE]

\* The Client NewClient returns.
NewClientState ==
    [rootVer |-> 0, targetsVer |-> 0, snapshotVer |-> 0, timestampVer |-> 0,
     targets |-> NilFiles, localMeta |-> NoMeta, db |-> NilDB]

\* decodeRoot verifying the document against the keys it declares itself.
decodeRootSelfSigned(c, b, t) ==
    LET d == Content(b)
        db == IF d.type = "root" THEN DBOfRoot(d) ELSE c.db
        v == Verify(b, "root", c.rootVer, db, FALSE, t)
    IN IF v # "nil" THEN [err |-> Err("DecodeFailed", "root.json", v), c |-> c]
       ELSE [err |-> OK, c |-> [c EXCEPT !.rootVer = d.version]]

\* Client.decodeRoot at clock value t.
decodeRoot(c, b, t) ==
    LET v == Verify(b, "root", c.rootVer, c.db, FALSE, t) IN
    IF v # "nil" THEN [err |-> Err("DecodeFailed", "root.json", v), c |-> c]
    ELSE [err |-> OK, c |-> [c EXCEPT !.rootVer = Content(b).version]]

\* decodeSnapshot without the expiry check.
decodeSnapshotNoExpiry(c, b, t) ==
    LET v == Verify(b, "snapshot", c.snapshotVer, c.db, TRUE, t) IN
    IF v # "nil"
    THEN [err |-> Err("DecodeFailed", "snapshot.json", v), c |-> c,
          rootMeta |-> ZeroMeta, targetsMeta |-> ZeroMeta]
    ELSE [err |-> OK, c |-> [c EXCEPT !.snapshotVer = Content(b).version],
          rootMeta |-> Content(b).root, targetsMeta |-> Content(b).targets]

\* Client.decodeSnapshot.
decodeSnapshot(c, b, t) ==
    LET v == Verify(b, "snapshot", c.snapshotVer, c.db, FALSE, t) IN
    IF v # "nil"
    THEN [err |-> Err("DecodeFailed", "snapshot.json", v), c |-> c,
          rootMeta |-> ZeroMeta, targetsMeta |-> ZeroMeta]
    ELSE [err |-> OK, c |-> [c EXCEPT !.snapshotVer = Content(b).version],
          rootMeta |-> Content(b).root, targetsMeta |-> Content(b).targets]

\* decodeTargets reporting every target of the new document.
UpdatedTargetsAll(old, new) == new

\* The paths of the new targets whose FileMeta the old targets do not have.
UpdatedTargets(old, new) ==
    LET changed == {p \in DOMAIN new :
                      ~(p \in DOMAIN old /\ FileMetaEqual(old[p], new[p]) = "nil")}
    IN [p \in changed |-> new[p]]

\* decodeTargets without the assignment of c.targets.
decodeTargetsNoAssign(c, b, t) ==
    LET v == Verify(b, "targets", c.targetsVer, c.db, FALSE, t) IN
    IF v # "nil"
    THEN [err |-> Err("DecodeFailed", "targets.json", v), c |-> c, updated |-> NilFiles]
    ELSE [err |-> OK,
          c |-> [c EXCEPT !.targetsVer = Content(b).version],
          updated |-> UpdatedTargets(c.targets, Content(b).targets)]

\* Client.decodeTargets.
decodeTargets(c, b, t) ==
    LET v == Verify(b, "targets", c.targetsVer, c.db, FALSE, t) IN
    IF v # "nil"
    THEN [err |-> Err("DecodeFailed", "targets.json", v), c |-> c, updated |-> NilFiles]
    ELSE [err |-> OK,
          c |-> [c EXCEPT !.targetsVer = Content(b).version, !.targets = Content(b).targets],
          updated |-> UpdatedTargets(c.targets, Content(b).targets)]

\* decodeTimestamp without the version floor.
decodeTimestampNoFloor(c, b, t) ==
    LET v == Verify(b, "timestamp", 0, c.db, FALSE, t) IN
    IF v # "nil"
    THEN [err |-> Err("DecodeFailed", "timestamp.json", v), c |-> c, snapshotMeta |-> ZeroMeta]
    ELSE [err |-> OK, c |-> [c EXCEPT !.timestampVer = Content(b).version],
          snapshotMeta |-> Content(b).snapshot]

\* Client.decodeTimestamp.
decodeTimestamp(c, b, t) ==
    LET v == Verify(b, "timestamp", c.timestampVer, c.db, FALSE, t) IN
    IF v # "nil"
    THEN [err |-> Err("DecodeFailed", "timestamp.json", v), c |-> c, snapshotMeta |-> ZeroMeta]
    ELSE [err |-> OK, c |-> [c EXCEPT !.timestampVer = Content(b).version],
          snapshotMeta |-> Content(b).snapshot]

\* hasMeta that never finds snapshot.json.
hasMetaNoSnapshot(c, name, m) ==
    /\ name # "snapshot.json"
    /\ c.localMeta[name] # NONE
    /\ FileMetaEqual(GenerateFileMeta([blob |-> c.localMeta[name],
                                         len |-> BlobLen(c.localMeta[name])]), m) = "nil"

\* hasMeta that takes every root FileMeta for that of the local root.json.
hasMetaAnyRoot(c, name, m) ==
    \/ name = "root.json"
    \/ /\ c.localMeta[name] # NONE
       /\ FileMetaEqual(GenerateFileMeta([blob |-> c.localMeta[name],
                                         len |-> BlobLen(c.localMeta[name])]), m) = "nil"

\* Client.hasMeta.
hasMeta(c, name, m) ==
    /\ c.localMeta[name] # NONE
    /\ FileMetaEqual(GenerateFileMeta([blob |-> c.localMeta[name],
                                         len |-> BlobLen(c.localMeta[name])]), m) = "nil"

\* isDecodeFailedWithErr(err, signed.ErrRoleThreshold).
IsRoleThreshold(err) == err.kind = "DecodeFailed" /\ err.cause = "RoleThreshold"

\* The root part of getLocalMeta: the error and the database to install.
LocalRoot(meta, t) ==
    LET b == meta["root.json"]
        d == Content(b)
        db == IF d.type = "root" THEN DBOfRoot(d) ELSE NilDB
    IN IF b = NONE THEN [err |-> Err("NoRootKeys", "", ""), db |-> NilDB]
       ELSE IF d.type = "malformed" THEN [err |-> Err("Malformed", "", ""), db |-> NilDB]
       ELSE IF \E r \in Roles : d.type = "root" /\ ~AddRoleOK(d.roles[r])
            THEN [err |-> Err("InvalidThreshold", "", ""), db |-> NilDB]
       ELSE LET v == Verify(b, "root", 0, db, FALSE, t) IN
            IF v # "nil" THEN [err |-> Err(v, "", ""), db |-> NilDB]
            ELSE [err |-> OK, db |-> db]

\* UnmarshalTrusted checking the expiry as signed.Unmarshal does.
UnmarshalWithExpiry(b, role, db, t) == Verify(b, role, 0, db, FALSE, t)

\* signed.UnmarshalTrusted of a locally stored document for a role.
UnmarshalTrusted(b, role, db, t) == Verify(b, role, 0, db, TRUE, t)

\* The version of the document stored under a name, or the current value
\* cur of the field when there is none.
StoredVersion(meta, name, cur) ==
    IF meta[name] = NONE THEN cur ELSE Content(meta[name]).version

\* signed.UnmarshalTrusted of the document stored under a name, if any.
LocalCheck(meta, name, role, db, t) ==
    IF meta[name] = NONE THEN "nil" ELSE UnmarshalTrusted(meta[name], role, db, t)

\* Client.getLocalMeta over the result of local.GetMeta() (getErr: it failed).
\* The fields are assigned in the order root, snapshot, targets, timestamp, and
\* a failure keeps the assignments made before it.
getLocalMeta(c, meta, getErr, t) ==
    LET r == LocalRoot(meta, t)
        vs == LocalCheck(meta, "snapshot.json", "snapshot", r.db, t)
        vg == LocalCheck(meta, "targets.json", "targets", r.db, t)
        vt == LocalCheck(meta, "timestamp.json", "timestamp", r.db, t)
        sv == StoredVersion(meta, "snapshot.json", c.snapshotVer)
        gv == StoredVersion(meta, "targets.json", c.targetsVer)
        tv == StoredVersion(meta, "timestamp.json", c.timestampVer)
        gt == IF meta["targets.json"] = NONE THEN c.targets
              ELSE Content(meta["targets.json"]).targets
    IN IF getErr THEN [err |-> Err("LocalStore", "", ""), c |-> c]
       ELSE IF r.err # OK THEN [err |-> r.err, c |-> c]
       ELSE IF vs # "nil" THEN [err |-> Err(vs, "", ""), c |-> [c EXCEPT !.db = r.db]]
       ELSE IF vg # "nil"
            THEN [err |-> Err(vg, "", ""), c |-> [c EXCEPT !.db = r.db, !.snapshotVer = sv]]
       ELSE IF vt # "nil"
            THEN [err |-> Err(vt, "", ""),
                  c |-> [c EXCEPT !.db = r.db, !.snapshotVer = sv, !.targetsVer = gv,
                                  !.targets = gt]]
       ELSE [err |-> OK,
             c |-> [c EXCEPT !.db = r.db, !.snapshotVer = sv, !.targetsVer = gv,
                             !.targets = gt, !.timestampVer = tv, !.localMeta = meta]]

----------------------------------------------------------------------------
(* Download of a target file.                                               *)

\* The names callers ask for, and the byte streams a remote serves under
\* targets/<name>: right contents, a stream that is too short, one with a
\* wrong byte, one with a byte too many.
TargetNames == {"foo.txt", "nope.txt"}

TargetStreams == {Foo, <<"f", "o">>, <<"f", "x", "o">>, Foo \o <<"x">>}

\* The sizes a remote reports for a target file: unknown (-1), or a number
\* of bytes, which need not be the length of the stream.
TargetSizes == {-1, 3, 4}

\* Every response remote.Get("targets/" + name) can give.
TargetResponses ==
    {Resp("ok", f, sz, "ok") : f \in TargetStreams, sz \in TargetSizes}
    \cup {Resp("ok", <<>>, -1, "timeout"),
          Resp("notfound", <<>>, 0, "ok"), Resp("error", <<>>, 0, "ok")}

\* The size such a response reports.
TargetSize(resp) == resp.size

\* The first n bytes of a stream (io.LimitReader).
Prefix(f, n) == IF Len(f) <= n THEN f ELSE SubSeq(f, 1, n)

\* The test c.targets == nil taken as always true.
TargetsUnsetAlways(cl) == TRUE

\* c.targets == nil: Download and Targets then load the local metadata.
TargetsUnset(cl) == cl.targets = NilFiles

\* Download never deleting dest.
DeferDeleteNever(err) == FALSE

\* Download's deferred function: whether dest.Delete() is called, given the
\* error Download returns.
DeferDelete(err) == err # OK

\* DownloadTarget without the comparison of the bytes written with the
\* recorded FileMeta.
DownloadTargetNoCheck(files, name, resp) ==
    IF name \notin DOMAIN files THEN [err |-> Err("UnknownTarget", name, ""), written |-> <<>>]
    ELSE IF resp.status = "notfound" THEN [err |-> Err("NotFound", "", ""), written |-> <<>>]
    ELSE IF resp.status = "error" THEN [err |-> Err("Transport", "", ""), written |-> <<>>]
    ELSE IF resp.mode = "timeout"
         THEN [err |-> Err("DownloadFailed", name, "ReadTimeout"), written |-> <<>>]
    ELSE [err |-> OK, written |-> Prefix(resp.blob, files[name].length)]

\* Client.Download from the lookup of name in c.targets (files) on, given the
\* response resp of remote.Get: the error and the bytes written to dest.
DownloadTarget(files, name, resp) ==
    IF name \notin DOMAIN files THEN [err |-> Err("UnknownTarget", name, ""), written |-> <<>>]
    ELSE IF resp.status = "notfound" THEN [err |-> Err("NotFound", "", ""), written |-> <<>>]
    ELSE IF resp.status = "error" THEN [err |-> Err("Transport", "", ""), written |-> <<>>]
    ELSE IF TargetSize(resp) >= 0 /\ TargetSize(resp) # files[name].length
         THEN [err |-> ErrWrongSize(name, TargetSize(resp), files[name].length),
               written |-> <<>>]
    ELSE IF resp.mode = "timeout"
         THEN [err |-> Err("DownloadFailed", name, "ReadTimeout"), written |-> <<>>]
    ELSE LET data == Prefix(resp.blob, files[name].length)
             eq == FileMetaEqual(FileMetaOf(data), files[name])
         IN IF eq = "WrongLength"
            THEN [err |-> ErrWrongSize(name, Len(data), files[name].length), written |-> data]
            ELSE IF eq # "nil" THEN [err |-> Err("DownloadFailed", name, eq), written |-> data]
            ELSE [err |-> OK, written |-> data]

----------------------------------------------------------------------------
VARIABLES
    c,            \* the Client's fields
    local,        \* the local store: name -> blob
    now,          \* the wall clock
    pc,           \* where the running Update call is ("idle": no call)
    latestRoot,   \* update's latestRoot parameter
    m,            \* updateWithLatestRoot's parameter: [pinned, meta]
    snapshotMeta, \* update's local variables, between two fetches
    snapshotJSON,
    targetsMeta,
    updatedTargets,
    dest,         \* the Destination of the running Download call
    result,       \* what the last top-level call returned
    h             \* history of the running call, kept until the caller takes
                  \* the result: the local root document and rootVer when it
                  \* started (root0, rootVer0), the repository states an honest remote with a
                  \* fault-free local store is consistent with so far (repos),
                  \* what triggered the root refresh (trigger), the response of
                  \* the last remote.Get (resp), the bytes that download
                  \* returned (data) and the number of bytes it read (read),
                  \* whether the call wrote to the local store (wrote) and
                  \* the name it wrote last (last), and,
                  \* for a client built after a process ended inside an
                  \* Update that had written, the repository states that
                  \* Update was consistent with (crash), and for Download the
                  \* name asked for (name), the response of remote.Get
                  \* (tresp) and whether the call ran getLocalMeta (loaded),
                  \* and for Init its arguments (init); across the calls of
                  \* one client, the targets mapping it had when its last
                  \* Update returned nil (known)

vars == <<c, local, now, pc, latestRoot, m, snapshotMeta, snapshotJSON,
          targetsMeta, updatedTargets, dest, result, h>>

\* A nil *data.FileMeta.
NoPin == [pinned |-> FALSE, meta |-> ZeroMeta]

NoResp == Resp("none", NONE, 0, "ok")

\* No response to a Get of a target file.
NoTargetResp == Resp("none", <<>>, 0, "ok")

\* No Update of the client has returned nil yet: whether one has (set), and
\* the targets mapping the client had when the last one did (files).
NoFiles == [set |-> FALSE, files |-> NilFiles]

\* No call of Init: its arguments rootKeys and threshold.
NoInit == [rootKeys |-> {}, threshold |-> 0]

NoCall == [root0 |-> NONE, rootVer0 |-> 0, repos |-> {}, trigger |-> "none",
           resp |-> NoResp, data |-> NONE, read |-> 0, wrote |-> FALSE, last |-> "",
           crash |-> {},
           loaded |-> FALSE,
           name |-> "", tresp |-> NoTargetResp, init |-> NoInit, known |-> NoFiles]

\* The history of a call that starts now.
StartCall == [NoCall EXCEPT !.root0 = local["root.json"], !.rootVer0 = c.rootVer,
                           !.repos = Remotes, !.crash = h.crash, !.known = h.known]

\* A Destination nothing was written to.
NoDest == [written |-> <<>>, deleted |-> FALSE]

NoResult == [op |-> "none", err |-> OK, files |-> NilFiles]

Init ==
    /\ c = NewClientState
    /\ local = NoMeta
    /\ now = 0
    /\ pc = "idle"
    /\ latestRoot = FALSE
    /\ m = NoPin
    /\ snapshotMeta = ZeroMeta
    /\ snapshotJSON = NONE
    /\ targetsMeta = ZeroMeta
    /\ updatedTargets = NilFiles
    /\ dest = NoDest
    /\ result = NoResult
    /\ h = NoCall

----------------------------------------------------------------------------
(* Steps of a call of Update. Each action runs the code from one remote     *)
(* fetch up to the next one (or to the return). \E x \in {e} names the      *)
(* value of e.                                                              *)

\* update returns err (and the updated targets) to the caller of Update.
Return(err, files, c2, local2, h2) ==
    /\ c' = c2
    /\ local' = local2
    /\ pc' = "done"
    /\ latestRoot' = FALSE
    /\ m' = NoPin
    /\ snapshotMeta' = ZeroMeta
    /\ snapshotJSON' = NONE
    /\ targetsMeta' = ZeroMeta
    /\ updatedTargets' = NilFiles
    /\ result' = [op |-> "Update", err |-> err, files |-> files]
    /\ h' = IF err = OK THEN [h2 EXCEPT !.known = [set |-> TRUE, files |-> c2.targets]] ELSE h2
    /\ UNCHANGED <<now, dest>>

\* update calls updateWithLatestRoot(pin).
EnterRoot(pin, trigger, c2, local2, h2) ==
    /\ c' = c2
    /\ local' = local2
    /\ pc' = "root"
    /\ m' = pin
    /\ snapshotMeta' = ZeroMeta
    /\ snapshotJSON' = NONE
    /\ targetsMeta' = ZeroMeta
    /\ updatedTargets' = NilFiles
    /\ h' = [h2 EXCEPT !.trigger = trigger]
    /\ UNCHANGED <<now, latestRoot, dest, result>>

\* Update(): the call of update(false).
Update ==
    /\ pc = "idle"
    /\ pc' = "load"
    /\ latestRoot' = FALSE
    /\ h' = StartCall
    /\ UNCHANGED <<c, local, now, m, snapshotMeta, snapshotJSON, targetsMeta, updatedTargets, dest, result>>

\* update, lines 117-130: load the local metadata.
LoadLocal ==
    /\ pc = "load"
    /\ \E getErr \in BOOLEAN :
       \E r \in {getLocalMeta(c, local, getErr, now)} :
       \E h2 \in {IF getErr THEN [h EXCEPT !.repos = {}] ELSE h} :
            IF r.err = OK
            THEN /\ c' = r.c
                 /\ pc' = "timestamp"
                 /\ UNCHANGED <<local, now, latestRoot, m, snapshotMeta, snapshotJSON,
                                targetsMeta, updatedTargets, dest, result, h>>
            ELSE IF r.err.kind = "Expired" /\ ~latestRoot
                 THEN EnterRoot(NoPin, "expired", r.c, local, h2)
                 ELSE Return(r.err, NilFiles, r.c, local, h2)

\* The local-store faults tried with a response: a write can fail only when
\* the response is one whose bytes can get as far as the write.
SetErrs(resp) ==
    IF resp.status = "ok" /\ resp.mode = "ok" /\ resp.size = 0 THEN BOOLEAN ELSE {FALSE}

\* The history after remote.Get(name) answered resp and the download returned
\* dl (fault: a local-store write failed).
After(name, resp, fault, dl) ==
    [h EXCEPT !.repos = IF fault THEN {} ELSE @ \cap HonestRepos(name, resp),
              !.resp = resp, !.data = dl.data, !.read = dl.read]

\* The history h2 after local.SetMeta(name) succeeded.
Wrote(h2, name) == [h2 EXCEPT !.wrote = TRUE, !.last = name]

\* update, lines 132-154: timestamp.json, and the short-circuit.
FetchTimestamp ==
    /\ pc = "timestamp"
    /\ \E resp \in Responses("timestamp.json") : \E setErr \in SetErrs(resp) :
       \E dl \in {downloadMetaUnsafe("timestamp.json", resp)} :
       \E dec \in {decodeTimestamp(c, dl.data, now)} :
       \E h2 \in {After("timestamp.json", resp, setErr, dl)} :
       \E local2 \in {[local EXCEPT !["timestamp.json"] = dl.data]} :
            IF dl.err # OK THEN Return(dl.err, NilFiles, c, local, h2)
            ELSE IF dec.err # OK
                 THEN IF IsRoleThreshold(dec.err) /\ ~latestRoot
                      THEN EnterRoot(NoPin, "timestamp", c, local, h2)
                      ELSE Return(dec.err, NilFiles, c, local, h2)
            ELSE IF setErr
                 THEN Return(Err("LocalStore", "timestamp.json", ""), NilFiles, dec.c, local, h2)
            ELSE IF hasMeta(dec.c, "snapshot.json", dec.snapshotMeta)
                 THEN Return(ErrLatestSnapshot(dec.c.snapshotVer), NilFiles, dec.c, local2,
                             Wrote(h2, "timestamp.json"))
            ELSE /\ c' = dec.c
                 /\ local' = local2
                 /\ pc' = "snapshot"
                 /\ snapshotMeta' = dec.snapshotMeta
                 /\ h' = Wrote(h2, "timestamp.json")
                 /\ UNCHANGED <<now, latestRoot, m, snapshotJSON, targetsMeta, updatedTargets, dest, result>>

\* update, lines 156-203 when targets.json is not fetched: snapshot.json, the
\* root check, the targets check and the write of snapshot.json.
FetchSnapshot ==
    /\ pc = "snapshot"
    /\ \E resp \in Responses("snapshot.json") : \E setErr \in SetErrs(resp) :
       \E dl \in {downloadMeta("snapshot.json", snapshotMeta, resp)} :
       \E dec \in {decodeSnapshot(c, dl.data, now)} :
       \E h2 \in {After("snapshot.json", resp, setErr, dl)} :
            IF dl.err # OK THEN Return(dl.err, NilFiles, c, local, h2)
            ELSE IF dec.err # OK
                 THEN IF IsRoleThreshold(dec.err) /\ ~latestRoot
                      THEN EnterRoot(NoPin, "snapshot", c, local, h2)
                      ELSE Return(dec.err, NilFiles, c, local, h2)
            ELSE IF ~hasMeta(dec.c, "root.json", dec.rootMeta)
                 THEN EnterRoot([pinned |-> TRUE, meta |-> dec.rootMeta], "rootmeta",
                                dec.c, local, h2)
            ELSE IF ~hasMeta(dec.c, "targets.json", dec.targetsMeta)
                 THEN /\ c' = dec.c
                      /\ pc' = "targets"
                      /\ snapshotJSON' = dl.data
                      /\ targetsMeta' = dec.targetsMeta
                      /\ snapshotMeta' = ZeroMeta
                      /\ h' = h2
                      /\ UNCHANGED <<local, now, latestRoot, m, updatedTargets, dest, result>>
            ELSE IF setErr
                 THEN Return(Err("LocalStore", "snapshot.json", ""), NilFiles, dec.c, local, h2)
            ELSE Return(OK, NilFiles, dec.c, [local EXCEPT !["snapshot.json"] = dl.data],
                        Wrote(h2, "snapshot.json"))

\* update, lines 184-196: targets.json, up to its write.
FetchTargets ==
    /\ pc = "targets"
    /\ \E resp \in Responses("targets.json") : \E setErr \in SetErrs(resp) :
       \E dl \in {downloadMeta("targets.json", targetsMeta, resp)} :
       \E dec \in {decodeTargets(c, dl.data, now)} :
       \E h2 \in {After("targets.json", resp, setErr, dl)} :
            IF dl.err # OK THEN Return(dl.err, NilFiles, c, local, h2)
            ELSE IF dec.err # OK THEN Return(dec.err, NilFiles, c, local, h2)
            ELSE IF setErr
                 THEN Return(Err("LocalStore", "targets.json", ""), NilFiles, dec.c, local, h2)
            ELSE /\ c' = dec.c
                 /\ local' = [local EXCEPT !["targets.json"] = dl.data]
                 /\ pc' = "save"
                 /\ targetsMeta' = ZeroMeta
                 /\ updatedTargets' = dec.updated
                 /\ h' = Wrote(h2, "targets.json")
                 /\ UNCHANGED <<now, latestRoot, m, snapshotMeta, snapshotJSON, dest, result>>

\* The end of update returning the updated targets without the write of
\* snapshot.json.
SaveSnapshotSkipped ==
    /\ pc = "save"
    /\ \E setErr \in BOOLEAN :
         IF setErr
         THEN Return(Err("LocalStore", "snapshot.json", ""), NilFiles, c, local,
                     [h EXCEPT !.repos = {}])
         ELSE Return(OK, updatedTargets, c, local, h)

\* The end of update with snapshot.json stored although SetMeta reports an
\* error.
SaveSnapshotOnError ==
    /\ pc = "save"
    /\ \E setErr \in BOOLEAN :
         IF setErr
         THEN Return(Err("LocalStore", "snapshot.json", ""), NilFiles, c,
                     [local EXCEPT !["snapshot.json"] = snapshotJSON],
                     [h EXCEPT !.repos = {}])
         ELSE Return(OK, updatedTargets, c, [local EXCEPT !["snapshot.json"] = snapshotJSON],
                     Wrote(h, "snapshot.json"))

\* update, lines 198-203 after the write of targets.json: the write of
\* snapshot.json and the return of the updated targets.
SaveSnapshot ==
    /\ pc = "save"
    /\ \E setErr \in BOOLEAN :
         IF setErr
         THEN Return(Err("LocalStore", "snapshot.json", ""), NilFiles, c, local,
                     [h EXCEPT !.repos = {}])
         ELSE Return(OK, updatedTargets, c, [local EXCEPT !["snapshot.json"] = snapshotJSON],
                     Wrote(h, "snapshot.json"))

\* updateWithLatestRoot going on to the write of snapshot.json after the write
\* of root.json, instead of calling update(true).
FetchRootNoRestart ==
    /\ pc = "root"
    /\ \E resp \in Responses("root.json") : \E setErr \in SetErrs(resp) :
       \E dl \in {IF m.pinned THEN downloadMeta("root.json", m.meta, resp)
                   ELSE downloadMetaUnsafe("root.json", resp)} :
       \E dec \in {decodeRoot(c, dl.data, now)} :
       \E h2 \in {After("root.json", resp, setErr, dl)} :
            IF dl.err # OK THEN Return(dl.err, NilFiles, c, local, h2)
            ELSE IF dec.err # OK THEN Return(dec.err, NilFiles, c, local, h2)
            ELSE IF setErr
                 THEN Return(Err("LocalStore", "root.json", ""), NilFiles, dec.c, local, h2)
            ELSE /\ c' = dec.c
                 /\ local' = [local EXCEPT !["root.json"] = dl.data]
                 /\ pc' = "save"
                 /\ latestRoot' = TRUE
                 /\ m' = NoPin
                 /\ h' = Wrote(h2, "root.json")
                 /\ UNCHANGED <<now, snapshotMeta, snapshotJSON, targetsMeta, updatedTargets, dest, result>>

\* updateWithLatestRoot, lines 206-224: root.json, then the call of update(true).
FetchRoot ==
    /\ pc = "root"
    /\ \E resp \in Responses("root.json") : \E setErr \in SetErrs(resp) :
       \E dl \in {IF m.pinned THEN downloadMeta("root.json", m.meta, resp)
                   ELSE downloadMetaUnsafe("root.json", resp)} :
       \E dec \in {decodeRoot(c, dl.data, now)} :
       \E h2 \in {After("root.json", resp, setErr, dl)} :
            IF dl.err # OK THEN Return(dl.err, NilFiles, c, local, h2)
            ELSE IF dec.err # OK THEN Return(dec.err, NilFiles, c, local, h2)
            ELSE IF setErr
                 THEN Return(Err("LocalStore", "root.json", ""), NilFiles, dec.c, local, h2)
            ELSE /\ c' = dec.c
                 /\ local' = [local EXCEPT !["root.json"] = dl.data]
                 /\ pc' = "load"
                 /\ latestRoot' = TRUE
                 /\ m' = NoPin
                 /\ h' = Wrote(h2, "root.json")
                 /\ UNCHANGED <<now, snapshotMeta, snapshotJSON, targetsMeta, updatedTargets, dest, result>>

----------------------------------------------------------------------------
(* The other top-level operations, and the environment.                     *)

\* A top-level call other than Update returns.
Returned(op, err, files, c2, local2, h2) ==
    /\ c' = c2
    /\ local' = local2
    /\ pc' = "done"
    /\ result' = [op |-> op, err |-> err, files |-> files]
    /\ h' = h2
    /\ UNCHANGED <<now, latestRoot, m, snapshotMeta, snapshotJSON, targetsMeta, updatedTargets, dest>>

\* The root keys and thresholds a caller passes to Init.
InitKeySets == {{"kr"}}

InitThresholds == {0, 1, 2}

\* Client.Init(rootKeys, threshold).
ClientInit ==
    /\ pc = "idle"
    /\ \E rootKeys \in InitKeySets, threshold \in InitThresholds :
         IF Cardinality(rootKeys) < threshold
         THEN Returned("Init", Err("InsufficientKeys", "", ""), NilFiles, c, local,
                       [StartCall EXCEPT !.init = [rootKeys |-> rootKeys, threshold |-> threshold]])
         ELSE \E resp \in Responses("root.json") : \E setErr \in SetErrs(resp) :
              \E dl \in {downloadMetaUnsafe("root.json", resp)} :
              \E role \in {[keyids |-> rootKeys, threshold |-> threshold]} :
              \E c1 \in {[c EXCEPT !.db = [keys |-> rootKeys, roles |-> NilDB.roles]]} :
              \E c2 \in {[c EXCEPT !.db = DBOfInit(rootKeys, threshold)]} :
              \E dec \in {decodeRoot(c2, dl.data, now)} :
              \E h2 \in {[StartCall EXCEPT
                              !.repos = IF setErr THEN {} ELSE HonestRepos("root.json", resp),
                              !.resp = resp, !.data = dl.data, !.read = dl.read,
                              !.init = [rootKeys |-> rootKeys, threshold |-> threshold]]} :
                 IF dl.err # OK THEN Returned("Init", dl.err, NilFiles, c, local, h2)
                 ELSE IF ~AddRoleOK(role)
                      THEN Returned("Init", Err("InvalidThreshold", "", ""), NilFiles, c1, local, h2)
                 ELSE IF dec.err # OK THEN Returned("Init", dec.err, NilFiles, c2, local, h2)
                 ELSE IF setErr
                      THEN Returned("Init", Err("LocalStore", "root.json", ""), NilFiles, dec.c, local, h2)
                 ELSE Returned("Init", OK, NilFiles, dec.c, [local EXCEPT !["root.json"] = dl.data], h2)

\* Client.Targets().
Targets ==
    /\ pc = "idle"
    /\ \E getErr \in BOOLEAN :
       \E r \in {getLocalMeta(c, local, getErr, now)} :
       \E h2 \in {[StartCall EXCEPT !.repos = IF getErr THEN {} ELSE Remotes]} :
            IF ~TargetsUnset(c) THEN Returned("Targets", OK, c.targets, c, local, h2)
            ELSE IF r.err # OK THEN Returned("Targets", r.err, NilFiles, r.c, local, h2)
            ELSE Returned("Targets", OK, r.c.targets, r.c, local, h2)

\* Client.Download(name, dest). remote.Get is called only when the name is
\* in c.targets.
Download ==
    /\ pc = "idle"
    /\ \E name \in TargetNames : \E getErr \in BOOLEAN : \E resp \in TargetResponses :
       \E r \in {IF TargetsUnset(c) THEN getLocalMeta(c, local, getErr, now)
                  ELSE [err |-> OK, c |-> c]} :
       \E d \in {DownloadTarget(r.c.targets, name, resp)} :
       \E err \in {IF r.err # OK THEN r.err ELSE d.err} :
          /\ c' = r.c
          /\ pc' = "done"
          /\ dest' = [written |-> IF r.err # OK THEN <<>> ELSE d.written,
                      deleted |-> DeferDelete(err)]
          /\ result' = [op |-> "Download", err |-> err, files |-> NilFiles]
          /\ h' = [StartCall EXCEPT
                      !.repos = {}, !.name = name, !.loaded = TargetsUnset(c),
                      !.tresp = IF r.err = OK /\ name \in DOMAIN r.c.targets
                                THEN resp ELSE NoTargetResp]
          /\ UNCHANGED <<local, now, latestRoot, m, snapshotMeta, snapshotJSON, targetsMeta,
                         updatedTargets>>

\* The caller takes the result of the call.
Finish ==
    /\ pc = "done"
    /\ pc' = "idle"
    /\ dest' = NoDest
    /\ result' = NoResult
    /\ h' = [NoCall EXCEPT !.known = h.known]
    /\ UNCHANGED <<c, local, now, latestRoot, m, snapshotMeta, snapshotJSON, targetsMeta,
                   updatedTargets>>

\* The process ends (also in the middle of an update) and a new one calls
\* NewClient over the same local store.
NewClient ==
    /\ pc # "done"
    /\ c' = NewClientState
    /\ pc' = "idle"
    /\ latestRoot' = FALSE
    /\ m' = NoPin
    /\ snapshotMeta' = ZeroMeta
    /\ snapshotJSON' = NONE
    /\ targetsMeta' = ZeroMeta
    /\ updatedTargets' = NilFiles
    /\ result' = NoResult
    /\ h' = [NoCall EXCEPT !.crash = IF pc = "idle" THEN h.crash
                                     ELSE IF h.wrote THEN h.repos
                                     ELSE h.crash \cap h.repos]
    /\ UNCHANGED <<local, now, dest>>

\* Time passes.
Tick ==
    /\ pc # "done"
    /\ now < MaxTime
    /\ now' = now + 1
    /\ UNCHANGED <<c, local, pc, latestRoot, m, snapshotMeta, snapshotJSON,
                   targetsMeta, updatedTargets, dest, result, h>>

UpdateStep ==
    LoadLocal \/ FetchTimestamp \/ FetchSnapshot \/ FetchTargets \/ SaveSnapshot \/ FetchRoot

Next ==
    \/ Update
    \/ LoadLocal
    \/ FetchTimestamp
    \/ FetchSnapshot
    \/ FetchTargets
    \/ SaveSnapshot
    \/ FetchRoot
    \/ ClientInit
    \/ Targets
    \/ Download
    \/ Finish
    \/ NewClient
    \/ Tick

Spec == Init /\ [][Next]_vars

\* The scheduling of a call: the goroutine that called Update keeps running,
\* so a step of the update that can be taken is eventually taken.
FairSpec == Init /\ [][Next]_vars /\ WF_vars(UpdateStep)

----------------------------------------------------------------------------
(* Properties.                                                              *)

\* The version fields of a client.
VersionFields == {"rootVer", "targetsVer", "snapshotVer", "timestampVer"}

\* C1: within one call of Update the root refresh (updateWithLatestRoot) is
\* entered at most once: once the update was restarted with latestRoot set,
\* no step of it enters the root refresh again.
C1_RootRefreshAtMostOnce ==
    [][(pc # "root" /\ pc' = "root") => ~latestRoot]_vars

\* C2: every call of Update eventually returns, whatever the remote answers:
\* a pass of the update that has started leads to the return of the call
\* (or to the end of the process).
C2_UpdateReturns ==
    (pc = "load") ~> (pc \in {"done", "idle"})

\* C3: on one client instance none of rootVer, targetsVer, snapshotVer and
\* timestampVer ever decreases: every step that is not the construction of a
\* new client leaves each of them greater than or equal to what it was.
C3_VersionsNeverDecrease ==
    [][NewClient \/ (\A f \in VersionFields : c'[f] >= c[f])]_vars

\* C4: the root refresh never replaces the root.json of the local store by a
\* root document of a lower version.
C4_NoRootRollback ==
    [][(pc = "root" /\ local["root.json"] # NONE
            /\ local'["root.json"] # local["root.json"])
        => Content(local'["root.json"]).version >= Content(local["root.json"]).version]_vars

\* The file of a role, and a client's version field for it.
FileOf(r) ==
    CASE r = "root" -> "root.json" [] r = "targets" -> "targets.json"
      [] r = "snapshot" -> "snapshot.json" [] OTHER -> "timestamp.json"

VerOf(cl, r) ==
    CASE r = "root" -> cl.rootVer [] r = "targets" -> cl.targetsVer
      [] r = "snapshot" -> cl.snapshotVer [] OTHER -> cl.timestampVer

\* The step of Update that fetches the file of role r (pc is named after it)
\* is taken.
FetchStep(r) == pc = r /\ pc' \notin {r, "idle"}

\* Document d carries valid signatures of a threshold of the keys of role r
\* in the database db.
SignedBy(d, r, db) ==
    /\ db.roles[r].threshold >= 1
    /\ Cardinality(d.sigs \cap db.roles[r].keyids \cap db.keys) >= db.roles[r].threshold

\* C5: the root refresh accepts a downloaded root.json (advances rootVer,
\* writes it, restarts the update) only if it is signed by a threshold of
\* the root keys of the database the client held before the refresh.
C5_RootSignedByTrustedKeys ==
    [][(FetchStep("root")
            /\ (pc' = "load" \/ c'.rootVer # c.rootVer
                  \/ local'["root.json"] # local["root.json"]))
        => /\ Content(h'.data).type = "root"
           /\ SignedBy(Content(h'.data), "root", c.db)]_vars

\* The root refresh has replaced the local root by another one.
C5_Witness ==
    /\ pc = "load" /\ latestRoot
    /\ h.data \in RootBlobs /\ local["root.json"] = h.data /\ h.root0 # h.data

\* The bytes handed to the decoder of role r at this step are a correctly
\* signed document of the role, older than the one of the local store.
Replayed(r) ==
    /\ FetchStep(r)
    /\ h'.data # NONE
    /\ local[FileOf(r)] # NONE
    /\ Content(h'.data).type = r
    /\ SignedBy(Content(h'.data), r, c.db)
    /\ Content(h'.data).version < Content(local[FileOf(r)]).version

ReplayRejected(r) ==
    /\ pc = "done" /\ result.op = "Update"
    /\ result.err = Err("DecodeFailed", FileOf(r), "LowVersion")
    /\ local[FileOf(r)] # NONE
    /\ Content(h.data).type = r
    /\ Content(h.data).version < Content(local[FileOf(r)]).version

C6_WitnessSnapshot == ReplayRejected("snapshot")

C6_WitnessTargets == ReplayRejected("targets")

\* The FileMeta that pins the download of role r: the one the timestamp
\* written in this pass gives for snapshot.json, the one the snapshot verified
\* in this pass gives for targets.json.
PinOf(r) ==
    IF r = "snapshot" THEN Content(local["timestamp.json"]).snapshot
    ELSE Content(snapshotJSON).targets

\* The response carries the bytes the FileMeta pin describes.
Matches(resp, pin) ==
    /\ BlobLen(resp.blob) = pin.length
    /\ pin.hashes = [a \in {"sha512"} |-> resp.blob]

\* C7: Update takes snapshot.json and targets.json bytes only if their length
\* and digest are those the timestamp (the snapshot) verified in the same
\* pass gives; when the remote serves other bytes (its stream does not stall)
\* Update fails with ErrWrongSize or with ErrDownloadFailed of a wrong hash or
\* a wrong length and writes neither targets.json nor snapshot.json.
C7_MixAndMatchRejected ==
    [][\A r \in {"snapshot", "targets"} :
         FetchStep(r)
         => /\ h'.data # NONE => (h'.data = h'.resp.blob /\ Matches(h'.resp, PinOf(r)))
            /\ (h'.resp.status = "ok" /\ h'.resp.mode # "timeout"
                  /\ ~Matches(h'.resp, PinOf(r)))
               => /\ pc' = "done"
                  /\ \/ /\ result'.err.kind = "WrongSize" /\ result'.err.file = FileOf(r)
                        /\ ReportedSize(h'.resp) # PinOf(r).length
                     \/ result'.err = Err("DownloadFailed", FileOf(r), "WrongHash")
                     \/ result'.err = Err("DownloadFailed", FileOf(r), "WrongLength")
                  /\ local'["targets.json"] = local["targets.json"]
                  /\ local'["snapshot.json"] = local["snapshot.json"]]_vars

\* The snapshot announces new targets and the remote serves the old ones.
C7_Witness ==
    /\ pc = "done" /\ result.op = "Update"
    /\ result.err.kind = "WrongSize" /\ result.err.file = "targets.json"
    /\ h.resp.blob = local["targets.json"]

\* C8: against a repository that replaced the timestamp key (root R2 signed
\* by the unchanged root key, timestamp T2 signed by the new key), with an
\* honest remote and no local fault, the Update of a client that trusted the
\* previous root R1 succeeds, and then the database has the new key, not the
\* old one, and rootVer has increased.
C8_KeyRotationUpdateSucceeds ==
    (pc = "done" /\ result.op = "Update" /\ "repo2" \in h.repos
        /\ h.root0 = "R1" /\ h.rootVer0 = 1)
    => /\ result.err = OK
       /\ "kt2" \in c.db.keys /\ "kt" \notin c.db.keys
       /\ c.rootVer > h.rootVer0

\* The step that hands bytes to the decoder of role r: the fetch of the role
\* in Update, and for root also Init.
DecodeStep(r) ==
    \/ FetchStep(r)
    \/ r = "root" /\ pc = "idle" /\ pc' = "done" /\ result'.op = "Init"

\* The database the decoder of this step verifies with.
DecodeDB == IF pc = "idle" THEN c'.db ELSE c.db

\* The bytes handed to the decoder of role r at this step are a correctly
\* signed document of the role that is expired.
DecodedExpired(r) ==
    /\ DecodeStep(r)
    /\ h'.data # NONE
    /\ Content(h'.data).type = r
    /\ SignedBy(Content(h'.data), r, DecodeDB)
    /\ IsExpired(Content(h'.data).expires, now)

\* C9 as stated: whenever the document served for a role is expired, Update
\* (Init for root) fails with ErrDecodeFailed{file, ErrExpired} and does not
\* write it.
C9_ExpiredServedFailsExpired ==
    [][\A r \in Roles :
         DecodedExpired(r)
         => /\ pc' = "done"
            /\ result'.err = Err("DecodeFailed", FileOf(r), "Expired")
            /\ local' = local]_vars

\* C9, amended: a fetched document that is expired is not written in the step
\* that fetched it; and when the bytes handed to the decoder are a correctly
\* signed, expired document of the role whose version is not below the
\* client's version of the role, the call fails with
\* ErrDecodeFailed{file, ErrExpired} and writes nothing.
C9_ExpiredRejected ==
    [][\A r \in Roles :
         DecodeStep(r)
         => /\ (local'[FileOf(r)] # local[FileOf(r)] /\ local'[FileOf(r)] = h'.data)
               => ~IsExpired(Content(h'.data).expires, now)
            /\ (DecodedExpired(r) /\ Content(h'.data).version >= VerOf(c, r))
               => /\ pc' = "done"
                  /\ result'.err = Err("DecodeFailed", FileOf(r), "Expired")
                  /\ local' = local]_vars

\* An expired document of role r was rejected as expired.
ExpiredRejected(r) ==
    /\ pc = "done"
    /\ result.err = Err("DecodeFailed", FileOf(r), "Expired")
    /\ Content(h.data).type = r
    /\ IsExpired(Content(h.data).expires, now)

C9_Witness == ExpiredRejected("snapshot")

C9_WitnessRoot == ExpiredRejected("root") /\ result.op = "Init"

C9_WitnessTimestamp == ExpiredRejected("timestamp")

C9_WitnessTargets == ExpiredRejected("targets")

\* The local root.json is expired.
LocalRootExpired ==
    /\ local["root.json"] # NONE
    /\ IsExpired(Content(local["root.json"]).expires, now)

\* C10: when the load of the local metadata finds the local root expired and
\* the root was not refreshed yet in this call, Update fetches root.json
\* unpinned; a fetched root that verifies is written and the update restarts
\* with latestRoot set and, served by an honest remote (here the repository
\* with root R2) without local fault, completes: Update returns nil; when the
\* load finds the root expired after the refresh, Expired is returned.
C10_ExpiredLocalRootRefresh ==
    [][/\ (FetchStep("load") /\ LocalRootExpired
              /\ ~(pc' = "done" /\ result'.err.kind = "LocalStore"))
          => IF latestRoot
             THEN pc' = "done" /\ result'.err.kind = "Expired" /\ local' = local
             ELSE pc' = "root" /\ ~m'.pinned /\ local' = local
       /\ (FetchStep("root") /\ ~m.pinned
              /\ h'.resp.status = "ok" /\ h'.resp.mode = "ok"
              /\ ReportedSize(h'.resp) <= maxMetaSize
              /\ Verify(h'.resp.blob, "root", c.rootVer, c.db, FALSE, now) = "nil"
              /\ ~(pc' = "done" /\ result'.err.kind = "LocalStore"))
          => /\ pc' = "load" /\ latestRoot'
             /\ local'["root.json"] = h'.resp.blob
       /\ (pc # "done" /\ pc' = "done" /\ result'.op = "Update"
              /\ h'.trigger = "expired" /\ "repo2" \in h'.repos)
          => result'.err = OK]_vars

\* A step in which getLocalMeta runs and local.GetMeta() does not fail: the
\* load of an update pass, and Targets or Download on a client whose targets
\* are nil.
LoadStep ==
    /\ \/ FetchStep("load")
       \/ /\ pc = "idle" /\ pc' = "done" /\ result'.op \in {"Targets", "Download"}
          /\ c.targets = NilFiles
    /\ ~(pc' = "done" /\ result'.err.kind = "LocalStore")

\* The local store holds a root, and every document it holds is of the role
\* of its file and signed by a threshold of the role's keys in that root.
LocalStoreSigned ==
    /\ local["root.json"] # NONE
    /\ Content(local["root.json"]).type = "root"
    /\ \A r \in Roles :
         local[FileOf(r)] # NONE
         => /\ Content(local[FileOf(r)]).type = r
            /\ SignedBy(Content(local[FileOf(r)]), r, DBOfRoot(Content(local["root.json"])))

\* C11: getLocalMeta over a correctly signed local store fails with
\* ErrExpired when the local root is expired and then leaves the key
\* database, the four version fields, the targets and localMeta as they were;
\* when the root is not expired it accepts the stored timestamp, snapshot and
\* targets, expired or not, and adopts their versions.
C11_LocalExpiry ==
    [][(LoadStep /\ LocalStoreSigned)
        => IF LocalRootExpired
           THEN /\ c' = c
                /\ \/ pc' = "root"
                   \/ pc' = "done" /\ result'.err = Err("Expired", "", "")
           ELSE /\ c'.localMeta = local
                /\ c'.db = DBOfRoot(Content(local["root.json"]))
                /\ \A r \in {"timestamp", "snapshot", "targets"} :
                     local[FileOf(r)] # NONE
                     => VerOf(c', r) = Content(local[FileOf(r)]).version
                /\ pc = "load" => pc' = "timestamp"]_vars

\* An update pass has loaded a local store whose timestamp, snapshot and
\* targets are expired, and adopted the snapshot's version.
C11_Witness ==
    /\ pc = "timestamp"
    /\ \A r \in {"timestamp", "snapshot", "targets"} :
         /\ local[FileOf(r)] # NONE
         /\ IsExpired(Content(local[FileOf(r)]).expires, now)
         /\ VerOf(c, r) = Content(local[FileOf(r)]).version
    /\ c.localMeta = local

\* Targets() failed on an expired local root and left the client as built.
C11_WitnessExpiredRoot ==
    /\ pc = "done" /\ result.op = "Targets" /\ result.err = Err("Expired", "", "")
    /\ LocalRootExpired
    /\ c = NewClientState

\* The timestamp fetched at this step verifies and gives for snapshot.json
\* the FileMeta of the snapshot.json of the local store, and is written.
PinsLocalSnapshot ==
    /\ FetchStep("timestamp")
    /\ h'.data # NONE
    /\ Verify(h'.data, "timestamp", c.timestampVer, c.db, FALSE, now) = "nil"
    /\ local["snapshot.json"] # NONE
    /\ Content(h'.data).snapshot = MetaOf(local["snapshot.json"])
    /\ ~(pc' = "done" /\ result'.err.kind = "LocalStore")

\* C12: when the timestamp verified in an update pass (and written) gives for
\* snapshot.json the FileMeta of the locally stored snapshot.json, Update
\* returns ErrLatestSnapshot with the version of the stored snapshot right
\* after the fetch of timestamp.json: no further file is requested in the
\* pass, and the only write to the local store is timestamp.json.
C12_ShortCircuit ==
    [][PinsLocalSnapshot
        => /\ pc' = "done"
           /\ result'.err = ErrLatestSnapshot(Content(local["snapshot.json"]).version)
           /\ result'.files = NilFiles
           /\ local' = [local EXCEPT !["timestamp.json"] = h'.data]
           /\ h'.resp.blob = h'.data]_vars

\* Update returned ErrLatestSnapshot after writing a newer timestamp that
\* gives the stored snapshot.
C12_Witness ==
    /\ pc = "done" /\ result.op = "Update" /\ result.err.kind = "LatestSnapshot"
    /\ local["timestamp.json"] = h.data
    /\ Content(h.data).snapshot = MetaOf(local["snapshot.json"])
    /\ result.err.version = Content(local["snapshot.json"]).version
    /\ c.timestampVer = Content(h.data).version

\* Repository state r is consistent (its timestamp gives its snapshot, its
\* snapshot its root and targets) and none of its documents is expired.
Publishable(r) ==
    /\ \A n \in MetaNames :
         /\ RemoteFiles(r)[n] # NONE
         /\ ~IsExpired(Content(RemoteFiles(r)[n]).expires, now)
    /\ Content(RemoteFiles(r)["timestamp.json"]).snapshot = MetaOf(RemoteFiles(r)["snapshot.json"])
    /\ Content(RemoteFiles(r)["snapshot.json"]).root = MetaOf(RemoteFiles(r)["root.json"])
    /\ Content(RemoteFiles(r)["snapshot.json"]).targets = MetaOf(RemoteFiles(r)["targets.json"])

\* The client's versions and targets are those of repository state r.
UpToDate(r) ==
    /\ \A role \in Roles : VerOf(c, role) = Content(RemoteFiles(r)[FileOf(role)]).version
    /\ c.targets = Content(RemoteFiles(r)["targets.json"]).targets

\* C13: when the process ended inside an Update served honestly from
\* repository state r, the Update of a new client built over the local store
\* it left, served honestly from the same state without local fault, returns
\* nil (or ErrLatestSnapshot) and leaves the client with the versions and
\* targets of r.
C13_CrashRecovery ==
    \A r \in h.crash \cap h.repos :
        (pc = "done" /\ result.op = "Update" /\ Publishable(r))
        => /\ result.err.kind \in {"nil", "LatestSnapshot"}
           /\ UpToDate(r)

\* C14: whenever a top-level operation returns on a client whose local store
\* holds a root, there is a root document D such that rootVer is the version
\* of D and the key database holds exactly the keys and the four role
\* bindings of D.
C14_TrustState ==
    (pc = "done" /\ local["root.json"] # NONE)
    => \E b \in RootBlobs :
         /\ c.rootVer = Content(b).version
         /\ c.db = DBOfRoot(Content(b))

\* The version of the document the local store holds for role r (0: none),
\* and the targets of the stored targets.json (nil: none).
CommittedVer(r) ==
    IF local[FileOf(r)] = NONE THEN 0 ELSE Content(local[FileOf(r)]).version

CommittedTargets ==
    IF local["targets.json"] = NONE THEN NilFiles
    ELSE Content(local["targets.json"]).targets

\* C15: when Update returns an error other than ErrLatestSnapshot, the four
\* version fields and the targets of the client are those of the documents
\* of the local store.
C15_ErrorLeavesCommittedState ==
    (pc = "done" /\ result.op = "Update" /\ result.err.kind \notin {"nil", "LatestSnapshot"})
    => /\ \A r \in Roles : VerOf(c, r) = CommittedVer(r)
       /\ c.targets = CommittedTargets

\* A call of Download has returned.
DownloadReturned == pc = "done" /\ result.op = "Download"

\* C16: when Download returns, dest.Delete() was called if and only if the
\* error returned is not nil.
C16_DeleteIffError ==
    DownloadReturned => (dest.deleted <=> result.err # OK)

\* Download failed on a hash mismatch after writing to dest, and deleted it.
C16_Witness ==
    /\ DownloadReturned
    /\ result.err = Err("DownloadFailed", h.name, "WrongHash")
    /\ dest.written # <<>> /\ dest.deleted

\* Download returned nil and did not delete dest.
C16_WitnessOK ==
    DownloadReturned /\ result.err = OK /\ dest.written # <<>> /\ ~dest.deleted

\* The other error paths: the load of the local metadata, an unknown target,
\* a remote error, a wrong reported size, a read error, a length mismatch.
C16_WitnessLoad ==
    DownloadReturned /\ result.err.kind \in {"LocalStore", "NoRootKeys", "Expired"} /\ dest.deleted

C16_WitnessUnknown ==
    DownloadReturned /\ result.err = Err("UnknownTarget", h.name, "") /\ dest.deleted

C16_WitnessRemote ==
    DownloadReturned /\ result.err.kind \in {"NotFound", "Transport"} /\ dest.deleted

C16_WitnessSize ==
    /\ DownloadReturned /\ result.err.kind = "WrongSize" /\ dest.deleted
    /\ dest.written = <<>> /\ h.tresp.blob # <<>>

C16_WitnessRead ==
    DownloadReturned /\ result.err = Err("DownloadFailed", h.name, "ReadTimeout") /\ dest.deleted

C16_WitnessLength ==
    /\ DownloadReturned /\ result.err.kind = "WrongSize" /\ dest.deleted
    /\ dest.written # <<>>

\* The step of a call of Download.
DownloadStep == pc = "idle" /\ pc' = "done" /\ result'.op = "Download"

\* C17 as stated: no call of Download changes any field of the client.
C17_DownloadKeepsClient ==
    [][DownloadStep => c' = c]_vars

\* C17, amended: Download leaves the client as it was when its targets are
\* set; when they are nil it loads the local metadata, and then every field
\* it changed holds what the local store gives (the key database of the
\* stored root, the versions and targets of the stored documents, the stored
\* files as localMeta); rootVer never changes.
C17_DownloadLoadsOnlyWhenUnset ==
    [][DownloadStep
        => /\ c'.rootVer = c.rootVer
           /\ c.targets # NilFiles => c' = c
           /\ c'.db # c.db => c'.db = DBOfRoot(Content(local["root.json"]))
           /\ \A r \in {"timestamp", "snapshot", "targets"} :
                VerOf(c', r) # VerOf(c, r) => VerOf(c', r) = CommittedVer(r)
           /\ c'.targets # c.targets => c'.targets = CommittedTargets
           /\ c'.localMeta # c.localMeta => c'.localMeta = local]_vars

\* Download on a client with nil targets loaded the local metadata and
\* returned nil.
C17_Witness ==
    /\ DownloadReturned /\ result.err = OK
    /\ h.loaded
    /\ c.targets = CommittedTargets /\ c.localMeta = local

\* Download on a client with targets returned.
C17_WitnessSet ==
    DownloadReturned /\ ~h.loaded /\ c.localMeta # local

\* C18: Download returns nil only when the bytes written to dest have the
\* length and digest recorded for the name in c.targets; it never writes
\* (reads) more than the recorded length; and when the reported size passes
\* the size check (unknown, or the recorded length), a longer stream whose
\* first bytes are the recorded content succeeds, a shorter stream gives
\* ErrWrongSize{name, actual, expected} and a stream of the recorded length
\* with other content gives ErrDownloadFailed of a wrong hash.
C18_DownloadVerified ==
    DownloadReturned
    => /\ result.err = OK => h.tresp.status = "ok"
       /\ h.tresp.status # "none"
          => LET pin == c.targets[h.name]
                 f == h.tresp.blob
             IN /\ Len(dest.written) <= pin.length
                /\ result.err = OK
                   => /\ Len(dest.written) = pin.length
                      /\ dest.written = pin.hashes["sha512"]
                /\ (h.tresp.status = "ok" /\ h.tresp.mode = "ok"
                      /\ TargetSize(h.tresp) \in {-1, pin.length})
                   => /\ dest.written = Prefix(f, pin.length)
                      /\ (Len(f) > pin.length /\ Prefix(f, pin.length) = pin.hashes["sha512"])
                         => result.err = OK
                      /\ Len(f) < pin.length
                         => result.err = ErrWrongSize(h.name, Len(f), pin.length)
                      /\ (Len(f) = pin.length /\ f # pin.hashes["sha512"])
                         => result.err = Err("DownloadFailed", h.name, "WrongHash")

\* A stream longer than the recorded length was cut and accepted.
C18_Witness ==
    /\ DownloadReturned /\ result.err = OK
    /\ Len(h.tresp.blob) > Len(dest.written)
    /\ dest.written = c.targets[h.name].hashes["sha512"]

\* A stream shorter than the recorded length was rejected.
C18_WitnessShort ==
    /\ DownloadReturned /\ h.tresp.status = "ok" /\ h.tresp.mode = "ok"
    /\ TargetSize(h.tresp) = c.targets[h.name].length
    /\ Len(h.tresp.blob) < c.targets[h.name].length
    /\ result.err = ErrWrongSize(h.name, Len(h.tresp.blob), c.targets[h.name].length)

\* A stream of the recorded length with a wrong byte was rejected.
C18_WitnessCorrupt ==
    /\ DownloadReturned /\ h.tresp.status = "ok"
    /\ Len(h.tresp.blob) = c.targets[h.name].length
    /\ result.err = Err("DownloadFailed", h.name, "WrongHash")

\* A step that calls downloadMetaUnsafe: the fetch of timestamp.json, the
\* fetch of root.json without a FileMeta, and Init.
UnsafeStep ==
    \/ FetchStep("timestamp")
    \/ FetchStep("root") /\ ~m.pinned
    \/ pc = "idle" /\ pc' = "done" /\ result'.op = "Init" /\ h'.resp.status # "none"

\* The file such a step asks for.
UnsafeName == IF pc = "timestamp" THEN "timestamp.json" ELSE "root.json"

\* C19: downloadMetaUnsafe never reads (returns) more than maxMetaSize bytes,
\* whatever size the remote reports; a reported size above maxMetaSize gives
\* ErrMetaTooLarge{name, size} and no byte is read; a file of at most
\* maxMetaSize bytes is returned as served; a longer one is cut at
\* maxMetaSize bytes.
C19_UnsafeDownloadBounded ==
    [][(UnsafeStep /\ h'.resp.status = "ok")
        => /\ h'.read <= maxMetaSize
           /\ ReportedSize(h'.resp) > maxMetaSize
              => /\ pc' = "done"
                 /\ result'.err = ErrMetaTooLarge(UnsafeName, ReportedSize(h'.resp))
                 /\ h'.read = 0 /\ h'.data = NONE
           /\ (ReportedSize(h'.resp) <= maxMetaSize /\ h'.resp.mode = "ok")
              => IF BlobLen(h'.resp.blob) <= maxMetaSize
                 THEN h'.data = h'.resp.blob /\ h'.read = BlobLen(h'.resp.blob)
                 ELSE h'.data = CUT /\ h'.read = maxMetaSize]_vars

\* A file longer than maxMetaSize whose size the remote did not report, or
\* understated, was cut at maxMetaSize bytes.
C19_Witness ==
    /\ pc = "done" /\ h.resp.blob = BIG
    /\ ReportedSize(h.resp) <= maxMetaSize
    /\ h.read = maxMetaSize

\* The same with an understated size, and with the true size.
C19_WitnessUnderstated ==
    C19_Witness /\ ReportedSize(h.resp) = maxMetaSize

C19_WitnessTooLarge ==
    /\ pc = "done" /\ h.resp.blob = BIG /\ h.read = 0
    /\ result.err = ErrMetaTooLarge("timestamp.json", maxMetaSize + 1)

\* C20: when an update pass fetches, verifies and writes a new targets.json,
\* the updated targets are the paths the new document lists that the
\* client's previous targets do not have or have with another FileMeta, each
\* with its new FileMeta; the client's targets and targetsVer become those
\* of the new document; and Update returns that mapping when it succeeds.
C20_UpdatedTargetsDiff ==
    [][/\ (FetchStep("targets") /\ pc' = "save")
          => LET new == Content(h'.data).targets IN
             /\ DOMAIN updatedTargets'
                  = {p \in DOMAIN new : p \notin DOMAIN c.targets \/ c.targets[p] # new[p]}
             /\ \A p \in DOMAIN updatedTargets' : updatedTargets'[p] = new[p]
             /\ c'.targets = new
             /\ c'.targetsVer = Content(h'.data).version
       /\ (pc = "save" /\ pc' = "done" /\ result'.err = OK)
          => result'.files = updatedTargets /\ c' = c]_vars

\* Update from the first release to the second returned the changed and the
\* added path, not the unchanged one nor the removed one.
C20_Witness ==
    /\ pc = "done" /\ result.op = "Update" /\ result.err = OK
    /\ c.targets = Release2
    /\ DOMAIN result.files = {"bar.txt", "new.txt"}

\* Update to a re-published targets document returned no path.
C20_WitnessRepublished ==
    /\ pc = "done" /\ result.op = "Update" /\ result.err = OK
    /\ h.data = "G3" /\ c.targetsVer = 3
    /\ result.files = NilFiles

\* The first Update of a client returned every path.
C20_WitnessAll ==
    /\ pc = "done" /\ result.op = "Update" /\ result.err = OK
    /\ h.data \in TargetsBlobs
    /\ result.files = c.targets


\* Update returned nil or ErrLatestSnapshot and the caller has the result.
UpdateSucceeded ==
    pc = "done" /\ result.op = "Update" /\ result.err.kind \in {"nil", "LatestSnapshot"}

\* The target mapping of the targets.json held in the local store.
LocalTargets ==
    IF local["targets.json"] = NONE THEN NilFiles
    ELSE Content(local["targets.json"]).targets

\* C21: after Update returns nil or ErrLatestSnapshot, Targets() returns
\* exactly the target mapping of the targets.json held in the local store.
\* When Update has returned so, the client's targets are set and are the
\* mapping of the stored targets.json; handing the result to the caller
\* changes neither; and Targets() on a client whose targets are set returns
\* them, without an error and without touching the client or the store.
C21_TargetsAfterUpdate ==
    [][/\ UpdateSucceeded'
          => /\ local'["targets.json"] # NONE
             /\ ~TargetsUnset(c')
             /\ c'.targets = LocalTargets'
       /\ (UpdateSucceeded /\ pc' = "idle" /\ result' = NoResult)
          => c' = c /\ local' = local
       /\ (pc = "idle" /\ pc' = "done" /\ result'.op = "Targets" /\ ~TargetsUnset(c))
          => /\ result' = [op |-> "Targets", err |-> OK, files |-> c.targets]
             /\ c' = c /\ local' = local]_vars

\* Update fetched and stored a new targets.json and returned nil.
C21_Witness ==
    /\ UpdateSucceeded /\ result.err = OK
    /\ local["targets.json"] = "G2" /\ c.localMeta["targets.json"] # "G2"
    /\ c.targets = Release2

\* Update returned ErrLatestSnapshot over a store that holds targets.json.
C21_WitnessLatest ==
    /\ UpdateSucceeded /\ result.err.kind = "LatestSnapshot"
    /\ c.targets = Release1 /\ local["targets.json"] = "G1"

\* Targets() returned the mapping a previous Update had decoded and stored.
C21_WitnessTargets ==
    /\ pc = "done" /\ result.op = "Targets" /\ result.err = OK
    /\ result.files = Release2
    /\ local["targets.json"] = "G2" /\ c.localMeta["targets.json"] # "G2"


\* A call of Init returns.
InitStep == pc = "idle" /\ pc' = "done" /\ result'.op = "Init"

\* C22: for every state of the remote, Init(rootKeys, t) with fewer root keys
\* than t returns ErrInsufficientKeys and Init(rootKeys, 0) returns the
\* invalid-threshold error, and in both cases root.json is not written to the
\* local store.
C22_InitRejectsThreshold ==
    [][InitStep =>
          /\ Cardinality(h'.init.rootKeys) < h'.init.threshold
                => result'.err = Err("InsufficientKeys", "", "") /\ local' = local
          /\ h'.init.threshold = 0
                => result'.err = Err("InvalidThreshold", "", "") /\ local' = local]_vars

\* The part of C22 that does not depend on the remote: too few keys give
\* ErrInsufficientKeys, and neither unusable threshold lets Init write.
C22_InitNeverWrites ==
    [][InitStep =>
          /\ Cardinality(h'.init.rootKeys) < h'.init.threshold
                => result'.err = Err("InsufficientKeys", "", "")
          /\ (Cardinality(h'.init.rootKeys) < h'.init.threshold \/ h'.init.threshold = 0)
                => result'.err # OK /\ local' = local]_vars


\* The place of a name in the order timestamp.json, root.json, targets.json,
\* snapshot.json (0: nothing written yet).
Rank(name) ==
    CASE name = "timestamp.json" -> 1
      [] name = "root.json" -> 2
      [] name = "targets.json" -> 3
      [] name = "snapshot.json" -> 4
      [] OTHER -> 0

\* A step of a call of Update writes name to the local store.
WriteStep(name) ==
    /\ pc \notin {"idle", "done"} /\ pc' # "idle"
    /\ h'.last = name /\ h'.last # h.last

\* C23 as stated: within one top-level call of Update no write of an earlier
\* item of the order timestamp.json, root.json, targets.json, snapshot.json
\* follows a write of a later item.
C23_WriteOrder ==
    [][\A name \in MetaNames : WriteStep(name) => Rank(h.last) <= Rank(name)]_vars

\* C23: within one top-level call of Update the writes follow the order
\* timestamp.json, then root.json or targets.json, then snapshot.json, and
\* start over after a write of root.json: the first write is of
\* timestamp.json or root.json, timestamp.json is followed by root.json,
\* targets.json or snapshot.json, root.json only by timestamp.json,
\* targets.json only by snapshot.json, and snapshot.json by nothing.
C23_WriteOrderPerPass ==
    [][\A name \in MetaNames : WriteStep(name) =>
          name \in (CASE h.last = "" -> {"timestamp.json", "root.json"}
                      [] h.last = "timestamp.json" -> {"root.json", "targets.json", "snapshot.json"}
                      [] h.last = "root.json" -> {"timestamp.json"}
                      [] h.last = "targets.json" -> {"snapshot.json"}
                      [] OTHER -> {})]_vars

\* The restarted update wrote timestamp.json after root.json.
C23_Witness ==
    /\ pc = "snapshot" /\ latestRoot /\ h.last = "timestamp.json"

\* One pass wrote timestamp.json, targets.json and snapshot.json.
C23_WitnessPass ==
    /\ pc = "done" /\ result.op = "Update" /\ result.err = OK
    /\ ~(result.files = NilFiles) /\ h.last = "snapshot.json"

\* root.json was written after timestamp.json.
C23_WitnessRoot ==
    /\ pc = "load" /\ latestRoot /\ h.last = "root.json" /\ h.trigger = "rootmeta"


\* The step fetches snapshot.json and the bytes pass decodeSnapshot.
SnapshotVerified ==
    /\ FetchStep("snapshot")
    /\ h'.data # NONE
    /\ Verify(h'.data, "snapshot", c.snapshotVer, c.db, FALSE, now) = "nil"

\* C24: snapshot.json is written only as the last step of an Update that
\* returns nil, after the root check passed (the stored root.json has the
\* FileMeta the snapshot gives) and the targets step completed (the stored
\* targets.json has the FileMeta the snapshot gives); a snapshot fetched and
\* verified is one the store does not hold, and every step that does not
\* return nil leaves the stored snapshot.json as it is, so after a failure the
\* store still lacks it and ErrLatestSnapshot, returned only for the stored
\* snapshot.json, is not returned for it.
C24_SnapshotWrittenLast ==
    [][/\ (local'["snapshot.json"] # local["snapshot.json"] \/ WriteStep("snapshot.json"))
          => /\ pc \in {"snapshot", "save"} /\ pc' = "done"
             /\ result'.op = "Update" /\ result'.err = OK
             /\ LET s == Content(local'["snapshot.json"]) IN
                  /\ s.type = "snapshot"
                  /\ local'["root.json"] # NONE /\ s.root = MetaOf(local'["root.json"])
                  /\ local'["targets.json"] # NONE
                  /\ s.targets = MetaOf(local'["targets.json"])
                  /\ c'.targets = Content(local'["targets.json"]).targets
       /\ SnapshotVerified => local["snapshot.json"] # h'.data
       /\ (pc' = "done" /\ result'.op = "Update" /\ result'.err.kind = "LatestSnapshot")
          => /\ local'["snapshot.json"] # NONE
             /\ Content(h'.data).snapshot = MetaOf(local'["snapshot.json"])]_vars

\* Update failed at the write of snapshot.json: the new targets.json is
\* stored, the new snapshot.json is not.
C24_Witness ==
    /\ pc = "done" /\ result.op = "Update"
    /\ result.err = Err("LocalStore", "snapshot.json", "")
    /\ local["targets.json"] = "G2" /\ local["snapshot.json"] # "S2"

\* After such a failure the next Update fetches the snapshot again.
C24_WitnessRefetch ==
    /\ pc = "snapshot" /\ snapshotMeta = MetaOf("S2")
    /\ local["targets.json"] = "G2" /\ local["snapshot.json"] # "S2"

\* Update failed at the download of targets.json after verifying a new
\* snapshot.
C24_WitnessTargets ==
    /\ pc = "done" /\ result.op = "Update"
    /\ result.err.kind = "DownloadFailed" /\ result.err.file = "targets.json"
    /\ local["timestamp.json"] = "T2" /\ local["snapshot.json"] # "S2"


\* C25: Init and Update write bytes to the local store under <role>.json only
\* after exactly those bytes passed the whole verification for the role
\* (type, signature threshold under the client's key database, version floor,
\* expiry) earlier in the same call. A step that writes <role>.json writes
\* the bytes its download returned and its decoder accepted, or, for
\* snapshot.json after a fetch of targets.json, the bytes kept since the
\* step that downloaded and verified them.
C25_OnlyVerifiedBytesWritten ==
    [][/\ \A r \in Roles :
            (local'[FileOf(r)] # local[FileOf(r)] \/ WriteStep(FileOf(r)))
            => /\ \A q \in Roles \ {r} : local'[FileOf(q)] = local[FileOf(q)]
               /\ IF pc = "save"
                  THEN r = "snapshot" /\ local'[FileOf(r)] = snapshotJSON
                  ELSE /\ DecodeStep(r)
                       /\ h'.data # NONE
                       /\ local'[FileOf(r)] = h'.data
                       /\ Verify(h'.data, r, VerOf(c, r), DecodeDB, FALSE, now) = "nil"
       /\ (pc = "snapshot" /\ pc' = "targets")
            => /\ snapshotJSON' = h'.data
               /\ h'.data # NONE
               /\ Verify(h'.data, "snapshot", c.snapshotVer, c.db, FALSE, now) = "nil"
       /\ (pc = "targets" /\ pc' = "save") => snapshotJSON' = snapshotJSON]_vars

\* One call of Update wrote a new root.json, timestamp.json, targets.json and
\* snapshot.json.
C25_Witness ==
    /\ pc = "done" /\ result.op = "Update" /\ result.err = OK
    /\ h.root0 # local["root.json"]
    /\ result.files # NilFiles /\ h.last = "snapshot.json"

\* Init wrote the root.json it verified with the caller's keys.
C25_WitnessInit ==
    /\ pc = "done" /\ result.op = "Init" /\ result.err = OK
    /\ local["root.json"] = h.data /\ h.data \in RootBlobs

\* Bytes that failed the verification were not written.
C25_WitnessRejected ==
    /\ pc = "done" /\ result.op = "Update" /\ result.err.kind = "DecodeFailed"
    /\ h.data # NONE /\ local[result.err.file] # h.data


\* The root FileMeta a snapshot document gives is that of the stored
\* root.json.
PinsLocalRoot(b) ==
    /\ local["root.json"] # NONE
    /\ Content(b).root = MetaOf(local["root.json"])

\* C26: targets.json is fetched and verified only in an update pass in which
\* the stored root.json has the root FileMeta of the snapshot verified in that
\* pass, with the key database of that root; when the verified snapshot gives
\* another root FileMeta, the pass goes to the fetch of root.json pinned to
\* that FileMeta, neither writing the snapshot nor fetching targets.json, and
\* the update restarts only with bytes of that FileMeta.
C26_TargetsUnderPinnedRoot ==
    [][/\ FetchStep("targets")
          => /\ PinsLocalRoot(snapshotJSON)
             /\ c.db = DBOfRoot(Content(local["root.json"]))
       /\ (SnapshotVerified /\ ~PinsLocalRoot(h'.data))
          => /\ pc' = "root"
             /\ m' = [pinned |-> TRUE, meta |-> Content(h'.data).root]
             /\ h'.trigger = "rootmeta"
             /\ local' = local
       /\ (SnapshotVerified /\ PinsLocalRoot(h'.data)) => pc' \in {"targets", "done"}
       /\ (pc = "root" /\ m.pinned /\ pc' \notin {"root", "idle"})
          => IF pc' = "load"
             THEN /\ Matches(h'.resp, m.meta)
                  /\ local' = [local EXCEPT !["root.json"] = h'.resp.blob]
                  /\ latestRoot'
             ELSE pc' = "done" /\ result'.err # OK /\ local' = local]_vars

\* The restarted pass fetches targets.json after the root the snapshot gives
\* was fetched.
C26_Witness ==
    /\ pc = "targets" /\ latestRoot /\ h.trigger = "rootmeta"
    /\ PinsLocalRoot(snapshotJSON)

\* A verified snapshot gives a root FileMeta other than that of the stored
\* root.json: the pinned fetch of root.json is next.
C26_WitnessMismatch ==
    /\ pc = "root" /\ m.pinned /\ m.meta # MetaOf(local["root.json"])


\* C27: every root.json that the root refresh writes to the local store
\* passes the check that loading the local metadata applies to the stored
\* root at the start of the next pass: it carries valid signatures of a
\* threshold of the root keys it declares itself, so the load does not
\* reject it for its signatures.
C27_RefreshedRootSelfConsistent ==
    [][(FetchStep("root") /\ pc' = "load")
        => /\ SignedBy(Content(local'["root.json"]), "root",
                       DBOfRoot(Content(local'["root.json"])))
           /\ LocalRoot(local', now).err.kind \notin {"RoleThreshold", "UnknownRole"}]_vars


\* The step downloads the file of role r with downloadMeta, and the FileMeta
\* it is pinned to.
PinnedStep(r) == FetchStep(r) /\ (r = "root" => m.pinned)

PinnedTo(r) ==
    CASE r = "snapshot" -> snapshotMeta
      [] r = "targets" -> targetsMeta
      [] OTHER -> m.meta

\* C28: in the pinned metadata download and in the target Download, when the
\* remote reports a known size (>= 0) other than the expected length, the
\* operation fails with ErrWrongSize{name, reported, expected} before any
\* byte of the stream is read, and Download writes nothing to dest; a
\* reported size of -1 skips this check, and then no more than the expected
\* length is read (written to dest).
C28_WrongSizeBeforeRead ==
    [][/\ \A r \in {"root", "snapshot", "targets"} :
            (PinnedStep(r) /\ h'.resp.status = "ok")
            => /\ (ReportedSize(h'.resp) >= 0 /\ ReportedSize(h'.resp) # PinnedTo(r).length)
                  => /\ pc' = "done"
                     /\ result'.err
                          = ErrWrongSize(FileOf(r), ReportedSize(h'.resp), PinnedTo(r).length)
                     /\ h'.read = 0 /\ h'.data = NONE
                     /\ local' = local
               /\ ReportedSize(h'.resp) = -1
                  => /\ h'.read <= PinnedTo(r).length
                     /\ ~(pc' = "done" /\ result'.err.kind = "WrongSize")
       /\ (DownloadStep /\ h'.tresp.status = "ok")
            => LET want == c'.targets[h'.name].length IN
               /\ (TargetSize(h'.tresp) >= 0 /\ TargetSize(h'.tresp) # want)
                  => /\ result'.err = ErrWrongSize(h'.name, TargetSize(h'.tresp), want)
                     /\ dest'.written = <<>>
               /\ TargetSize(h'.tresp) = -1
                  => /\ Len(dest'.written) <= want
                     /\ dest'.written = Prefix(h'.tresp.blob, want)
                     /\ result'.err.kind = "WrongSize"
                          => result'.err = ErrWrongSize(h'.name, Len(h'.tresp.blob), want)]_vars

\* The remote served the pinned snapshot.json under a wrong size: Update
\* failed with ErrWrongSize without reading.
C28_Witness ==
    /\ pc = "done" /\ result.op = "Update"
    /\ result.err = ErrWrongSize("snapshot.json", BlobLen(h.resp.blob) - 1, BlobLen(h.resp.blob))
    /\ h.read = 0

\* Download of the right stream under a wrong size wrote nothing.
C28_WitnessDownload ==
    /\ DownloadReturned /\ result.err = ErrWrongSize("foo.txt", 4, 3)
    /\ h.tresp.blob = Foo /\ dest.written = <<>>

\* Download with size -1 stopped at the expected length of a longer stream.
C28_WitnessUnknownSize ==
    /\ DownloadReturned /\ result.err = OK /\ TargetSize(h.tresp) = -1
    /\ Len(h.tresp.blob) > Len(dest.written)

\* A pinned download with size -1 read a file shorter than the pin.
C28_WitnessMetaUnknownSize ==
    /\ pc = "done" /\ result.op = "Update"
    /\ result.err.kind = "DownloadFailed" /\ result.err.cause = "WrongLength"
    /\ ReportedSize(h.resp) = -1 /\ h.read > 0


\* The stored documents give each other's FileMeta: the timestamp that of
\* the snapshot, the snapshot those of the root and of the targets.
CrossConsistent(meta) ==
    /\ \A n \in MetaNames : meta[n] # NONE
    /\ Content(meta["timestamp.json"]).type = "timestamp"
    /\ Content(meta["timestamp.json"]).snapshot = MetaOf(meta["snapshot.json"])
    /\ Content(meta["snapshot.json"]).type = "snapshot"
    /\ Content(meta["snapshot.json"]).root = MetaOf(meta["root.json"])
    /\ Content(meta["snapshot.json"]).targets = MetaOf(meta["targets.json"])

\* What an Update called now returns up to the short-circuit, when the local
\* store works and the remote serves the stored timestamp.json again:
\* ErrLatestSnapshot.
ShortCircuitsNow ==
    LET r == getLocalMeta(c, local, FALSE, now)
        dl == downloadMetaUnsafe("timestamp.json", Resp("ok", local["timestamp.json"], 0, "ok"))
        dec == decodeTimestamp(r.c, dl.data, now)
    IN /\ r.err = OK
       /\ dl.err = OK
       /\ dec.err = OK
       /\ hasMeta(dec.c, "snapshot.json", dec.snapshotMeta)

\* C29 as stated: after any Update that returns nil the local store is
\* cross-consistent (the stored snapshot.json has the length and hashes the
\* stored timestamp.json gives, the stored root.json and targets.json those
\* the stored snapshot.json gives), and an Update called right away against
\* the unchanged remote returns ErrLatestSnapshot.
C29_StoreCrossConsistent ==
    (pc = "done" /\ result.op = "Update" /\ result.err = OK)
    => CrossConsistent(local) /\ ShortCircuitsNow

\* C29: after any Update that returns nil the local store is
\* cross-consistent, and an Update called right away against the unchanged
\* remote returns ErrLatestSnapshot unless the stored root.json or
\* timestamp.json has expired by then.
C29_StoreConsistentAfterUpdate ==
    (pc = "done" /\ result.op = "Update" /\ result.err = OK)
    => /\ CrossConsistent(local)
       /\ \/ ShortCircuitsNow
          \/ IsExpired(Content(local["root.json"]).expires, now)
          \/ IsExpired(Content(local["timestamp.json"]).expires, now)

\* Update returned nil after fetching snapshot.json and targets.json.
C29_Witness ==
    /\ pc = "done" /\ result.op = "Update" /\ result.err = OK
    /\ h.last = "snapshot.json" /\ result.files # NilFiles
    /\ local["timestamp.json"] = "T2" /\ local["snapshot.json"] = "S2"

\* The Update after it returned ErrLatestSnapshot.
C29_WitnessNext ==
    /\ pc = "done" /\ result.op = "Update" /\ result.err.kind = "LatestSnapshot"
    /\ CrossConsistent(local) /\ h.resp.blob = c.localMeta["timestamp.json"]


\* Update returned nil when the documents it had verified had just expired.
C29_WitnessExpired ==
    /\ pc = "done" /\ result.op = "Update" /\ result.err = OK
    /\ IsExpired(Content(local["timestamp.json"]).expires, now)


\* C30: no target change is lost. When an Update returns nil, every path the
\* client's targets mapping has gained, or holds with another FileMeta, since
\* the client's last Update that returned nil is in the result, with its
\* FileMeta, also when an Update in between failed after verifying or
\* storing the new targets.json.
C30_NoTargetChangeLost ==
    [][(pc \notin {"idle", "done"} /\ pc' = "done" /\ result'.op = "Update"
          /\ result'.err = OK /\ h.known.set)
        => \A p \in DOMAIN c'.targets :
              (p \notin DOMAIN h.known.files \/ h.known.files[p] # c'.targets[p])
              => (p \in DOMAIN result'.files /\ result'.files[p] = c'.targets[p])]_vars

=============================================================================
